---------------------------- MODULE Spec2Model ----------------------------
(***************************************************************************)
(* Model of the dungeon generator (src/generate.py) and of its geometry    *)
(* primitives (src/game/grid.py).                                          *)
(*                                                                         *)
(* Sequences are 1-based here: room k of the model is rooms[k-1] of the    *)
(* Python list, and Python's room index i is written Py(k) = k - 1 where   *)
(* the code stores or compares an index (tile ids, sort keys).             *)
(***************************************************************************)
EXTENDS Integers, Sequences, FiniteSets, TLC

VARIABLES
    pc,               \* position of the running computation
    e0, e1, proj,     \* project(): its two arguments and its result
    root, min_size,   \* generate_tree(): its arguments
    todo,             \* generate_tree(): rectangles whose call is pending (a stack)
    leaves,           \* get_rects(): the leaf rectangles, left to right
    draws,            \* number of split fractions drawn by Node.split
    node,             \* generate_tree(): the node of the latest call, after its split
    width, height,    \* Map.width, Map.height
    rooms,            \* Map.rooms: sequence of [rects, connections]
    tiles,            \* Map.tiles: sequence of width*height cells (<<>> before line 134)
    i,                \* loop index of the running stage
    candidate_edges,  \* build_graph: the candidate edge set
    edges_left,       \* build_graph: edges of edges_sorted not yet consumed
    parent,           \* build_graph: the union-find forest
    accepted,         \* build_graph: number of edges union() accepted
    stages,           \* the calls Map.__init__ has made so far, in order
    closest, closest2, \* join_rooms: the pair of the latest join_rects call
    pending,          \* join_rooms: the (room, connection) pairs not yet walked
    err               \* "none", or the exception that ended the computation

vars == <<pc, e0, e1, proj, root, min_size, todo, leaves, draws, node, width, height,
          rooms, tiles, i, candidate_edges, edges_left, parent, accepted,
          stages, closest, closest2, pending, err>>

projVars  == <<e0, e1, proj>>
treeVars  == <<root, min_size, todo, leaves, draws, node>>
mapVars   == <<width, height, rooms, tiles, stages>>
graphVars == <<candidate_edges, edges_left, parent, accepted>>
joinVars  == <<closest, closest2, pending>>

----------------------------------------------------------------------------
(* Bounds of the model *)

MaxPos == 2          \* edge origins of the project() sweep lie in 0..MaxPos
MaxLen == 3          \* edge lengths of the project() sweep lie in 1..MaxLen
MaxMinSize == 3      \* generate_tree sweep: min_size lies in 1..MaxMinSize
MaxRoot == 6         \* generate_tree sweep: root width and height lie in 1..MaxRoot
UnitRoot == 3        \* ... and in 1..UnitRoot when min_size = 1 (unit leaves)
MaxDim == 6          \* shrink_rooms sweep: room width and height lie in 1..MaxDim
MaxShrinkRooms == 2  \* shrink_rooms sweep: 1..MaxShrinkRooms rooms
MaxGraphRooms == 4   \* build_graph sweep: 2..MaxGraphRooms rooms
MaxCol == 2          \* build_graph sweep: rooms stand in columns 0..MaxCol of two rows
JoinGrid == 4        \* join_rooms sweep: the grid is JoinGrid by JoinGrid
JoinLen == 2         \* join_rooms sweep: rectangle sides lie in 1..JoinLen
MergeGrid == 3       \* merge_rooms sweep: the grid is MergeGrid wide
MaxMergeRooms == 4   \* merge_rooms sweep: 2..MaxMergeRooms rooms

----------------------------------------------------------------------------
(* Arithmetic helpers *)

Min(a, b) == IF a < b THEN a ELSE b
Max(a, b) == IF a > b THEN a ELSE b
Abs(a) == IF a < 0 THEN -a ELSE a

Int2(px, py) == [x |-> px, y |-> py]

----------------------------------------------------------------------------
(* grid.py: edges *)

TOP == 0
RIGHT == 1
BOTTOM == 2
LEFT == 3

DELTAS(d) ==
    CASE d = 0 -> Int2(1, 0)
      [] d = 1 -> Int2(0, 1)
      [] d = 2 -> Int2(-1, 0)
      [] d = 3 -> Int2(0, -1)

Edge(p, len, d) == [pos |-> p, l |-> len, dir |-> d]

\* Edge.delta
delta(e) == DELTAS(e.dir)

\* Edge.mid: pos + delta * (l // 2)
mid(e) == Int2(e.pos.x + delta(e).x * (e.l \div 2), e.pos.y + delta(e).y * (e.l \div 2))

\* Edge.endp: pos + delta * l
endp(e) == Int2(e.pos.x + delta(e).x * e.l, e.pos.y + delta(e).y * e.l)

\* Edge.norm: DELTAS[(dir - 1) & 3]
norm(e) == DELTAS((e.dir + 3) % 4)

is_horiz(e) == e.dir = TOP \/ e.dir = BOTTOM
is_vert(e) == e.dir = LEFT \/ e.dir = RIGHT

\* Python's None, and a returned edge
None == <<>>
Some(e) == <<e>>

\* A slip in project(): the overlap tests are not strict, so a zero-length
\* overlap yields an edge
project_nonstrict(a, b) ==
    IF a.dir = b.dir THEN None
    ELSE IF is_horiz(a) /\ is_horiz(b) THEN
        LET s == IF a.dir = TOP THEN Max(a.pos.x, endp(b).x) ELSE Min(a.pos.x, endp(b).x)
            e == IF a.dir = TOP THEN Min(endp(a).x, b.pos.x) ELSE Max(endp(a).x, b.pos.x)
        IN  IF e >= s /\ a.dir = TOP THEN Some(Edge(Int2(s, a.pos.y), e - s, a.dir))
            ELSE IF e <= s /\ a.dir = BOTTOM THEN Some(Edge(Int2(s, a.pos.y), s - e, a.dir))
            ELSE None
    ELSE IF is_vert(a) /\ is_vert(b) THEN
        LET s == IF a.dir = RIGHT THEN Max(a.pos.y, endp(b).y) ELSE Min(a.pos.y, endp(b).y)
            e == IF a.dir = RIGHT THEN Min(endp(a).y, b.pos.y) ELSE Max(endp(a).y, b.pos.y)
        IN  IF e >= s /\ a.dir = RIGHT THEN Some(Edge(Int2(a.pos.x, s), e - s, a.dir))
            ELSE IF e <= s /\ a.dir = LEFT THEN Some(Edge(Int2(a.pos.x, s), s - e, a.dir))
            ELSE None
    ELSE None

\* A slip in project(): b's origin is used where the code uses b's end point
project_origin(a, b) ==
    IF a.dir = b.dir THEN None
    ELSE IF is_horiz(a) /\ is_horiz(b) THEN
        LET s == IF a.dir = TOP THEN Max(a.pos.x, b.pos.x) ELSE Min(a.pos.x, b.pos.x)
            e == IF a.dir = TOP THEN Min(endp(a).x, endp(b).x) ELSE Max(endp(a).x, endp(b).x)
        IN  IF e > s /\ a.dir = TOP THEN Some(Edge(Int2(s, a.pos.y), e - s, a.dir))
            ELSE IF e < s /\ a.dir = BOTTOM THEN Some(Edge(Int2(s, a.pos.y), s - e, a.dir))
            ELSE None
    ELSE IF is_vert(a) /\ is_vert(b) THEN
        LET s == IF a.dir = RIGHT THEN Max(a.pos.y, b.pos.y) ELSE Min(a.pos.y, b.pos.y)
            e == IF a.dir = RIGHT THEN Min(endp(a).y, endp(b).y) ELSE Max(endp(a).y, endp(b).y)
        IN  IF e > s /\ a.dir = RIGHT THEN Some(Edge(Int2(a.pos.x, s), e - s, a.dir))
            ELSE IF e < s /\ a.dir = LEFT THEN Some(Edge(Int2(a.pos.x, s), s - e, a.dir))
            ELSE None
    ELSE None

\* project(a, b), grid.py lines 92-125
project(a, b) ==
    IF a.dir = b.dir THEN None
    ELSE IF is_horiz(a) /\ is_horiz(b) THEN
        LET s == IF a.dir = TOP THEN Max(a.pos.x, endp(b).x) ELSE Min(a.pos.x, endp(b).x)
            e == IF a.dir = TOP THEN Min(endp(a).x, b.pos.x) ELSE Max(endp(a).x, b.pos.x)
        IN  IF e > s /\ a.dir = TOP THEN Some(Edge(Int2(s, a.pos.y), e - s, a.dir))
            ELSE IF e < s /\ a.dir = BOTTOM THEN Some(Edge(Int2(s, a.pos.y), s - e, a.dir))
            ELSE None
    ELSE IF is_vert(a) /\ is_vert(b) THEN
        LET s == IF a.dir = RIGHT THEN Max(a.pos.y, endp(b).y) ELSE Min(a.pos.y, endp(b).y)
            e == IF a.dir = RIGHT THEN Min(endp(a).y, b.pos.y) ELSE Max(endp(a).y, b.pos.y)
        IN  IF e > s /\ a.dir = RIGHT THEN Some(Edge(Int2(a.pos.x, s), e - s, a.dir))
            ELSE IF e < s /\ a.dir = LEFT THEN Some(Edge(Int2(a.pos.x, s), s - e, a.dir))
            ELSE None
    ELSE None

----------------------------------------------------------------------------
(* Values of the variables a specification does not use *)

NoEdge == Edge(Int2(0, 0), 0, TOP)
NoRect == [x |-> 0, y |-> 0, w |-> 0, h |-> 0]
NoNode == [rect |-> NoRect, children |-> <<>>]

IdleProj == e0 = NoEdge /\ e1 = NoEdge /\ proj = None
IdleTree == root = NoRect /\ min_size = 0 /\ todo = <<>> /\ leaves = <<>> /\ draws = 0
            /\ node = NoNode
IdleMap == width = 0 /\ height = 0 /\ rooms = <<>> /\ tiles = <<>> /\ stages = <<>>
IdleGraph == candidate_edges = {} /\ edges_left = {} /\ parent = <<>> /\ accepted = 0
IdleJoin == closest = NoRect /\ closest2 = NoRect /\ pending = {}

----------------------------------------------------------------------------
(* project() applied to a pair of edges: the three scenarios of grid.py's  *)
(* __main__ block (each in both argument orders), and every pair of a      *)
(* small sweep.                                                            *)

ScenarioPairs ==
    LET s1a == Edge(Int2(1, 1), 10, TOP)
        s1b == Edge(Int2(8, 3), 5, BOTTOM)
        s2a == Edge(Int2(1, 1), 10, TOP)
        s2b == Edge(Int2(18, 3), 7, BOTTOM)
        s3a == Edge(Int2(10, 10), 50, RIGHT)
        s3b == Edge(Int2(100, 40), 12, LEFT)
    IN  {<<s1a, s1b>>, <<s1b, s1a>>, <<s2a, s2b>>, <<s2b, s2a>>,
         <<s3a, s3b>>, <<s3b, s3a>>}

SweepEdges ==
    {Edge(Int2(px, py), len, d) :
        px \in 0..MaxPos, py \in 0..MaxPos, len \in 1..MaxLen, d \in 0..3}

InitProject ==
    /\ pc = "project"
    /\ \E pair \in ScenarioPairs \cup (SweepEdges \X SweepEdges) :
          e0 = pair[1] /\ e1 = pair[2]
    /\ proj = None
    /\ IdleTree /\ IdleMap /\ IdleGraph /\ IdleJoin
    /\ i = 0 /\ err = "none"

Project ==
    /\ pc = "project"
    /\ proj' = project(e0, e1)
    /\ pc' = "projected"
    /\ UNCHANGED <<e0, e1, treeVars, mapVars, graphVars, joinVars, i, err>>

NextProject == Project

SpecProject == InitProject /\ [][NextProject]_vars

----------------------------------------------------------------------------
(* generate.py: the BSP partition *)

HORIZ == 1
VERT == 2

Rect(px, py, pw, ph) == [x |-> px, y |-> py, w |-> pw, h |-> ph]

\* The grid cells a rectangle covers: (r.x + x, r.y + y) for x in range(r.w)
\* and y in range(r.h)
Cells(r) == {<<cx, cy>> : cx \in r.x..(r.x + r.w - 1), cy \in r.y..(r.y + r.h - 1)}

\* nrand(0.5, 0.15, 0.35) is a fraction v in [0.15, 0.85]; Node.split uses it
\* only as int(v * dim). SplitAmounts(dim) is the set of values int(v * dim)
\* takes over that range: every integer from int(0.15*dim) to int(0.85*dim).
SplitAmounts(dim) == ((15 * dim) \div 100)..((85 * dim) \div 100)

\* A slip in Node.split: the second child starts one cell late
split_gap(r, a) ==
    IF r.h > r.w
    THEN <<Rect(r.x, r.y, r.w, a), Rect(r.x, r.y + a + 1, r.w, r.h - a - 1)>>
    ELSE <<Rect(r.x, r.y, a, r.h), Rect(r.x + a + 1, r.y, r.w - a - 1, r.h)>>

\* Node.split(axis = 0) with a = int(v * dim): the two children
split(r, a) ==
    IF r.h > r.w
    THEN <<Rect(r.x, r.y, r.w, a), Rect(r.x, r.y + a, r.w, r.h - a)>>
    ELSE <<Rect(r.x, r.y, a, r.h), Rect(r.x + a, r.y, r.w - a, r.h)>>

\* The dimension Node.split(axis = 0) cuts
split_dim(r) == IF r.h > r.w THEN r.h ELSE r.w

\* A slip in generate_tree: only the first child is tested
children_fit_left(left_child, right_child, m) ==
    left_child.w >= m /\ left_child.h >= m

\* A slip in generate_tree: `or` between the two children's tests
children_fit_either(left_child, right_child, m) ==
    \/ (left_child.w >= m /\ left_child.h >= m)
    \/ (right_child.w >= m /\ right_child.h >= m)

\* generate_tree's test of the two children (lines 79-84)
children_fit(left_child, right_child, m) ==
    /\ left_child.w >= m
    /\ left_child.h >= m
    /\ right_child.w >= m
    /\ right_child.h >= m

\* One call of generate_tree, on the rectangle on top of the stack of pending
\* calls: split, then either recurse into both children (left first) or
\* drop the children and return the node as a leaf.
GenerateTreeCall ==
    /\ pc = "partition"
    /\ todo # <<>>
    /\ LET r == Head(todo) IN
       \E a \in SplitAmounts(split_dim(r)) :
          LET ch == split(r, a) IN
          /\ draws' = draws + 1
          /\ IF children_fit(ch[1], ch[2], min_size)
             THEN /\ node' = [rect |-> r, children |-> ch]
                  /\ todo' = <<ch[1], ch[2]>> \o Tail(todo)
                  /\ leaves' = leaves
             ELSE /\ node' = [rect |-> r, children |-> ch]
                  /\ todo' = Tail(todo)
                  /\ leaves' = Append(leaves, r)
    /\ UNCHANGED <<pc, root, min_size, projVars, joinVars, mapVars, graphVars, i, err>>

\* generate_tree has returned and get_rects has collected the leaves; the
\* nodes are not used again
TreeDone ==
    /\ pc = "partition"
    /\ todo = <<>>
    /\ pc' = "partitioned"
    /\ node' = NoNode
    /\ stages' = Append(stages, "partition")
    /\ UNCHANGED <<root, min_size, todo, leaves, draws, projVars, joinVars, width, height,
                   rooms, tiles, graphVars, i, err>>

\* The root sizes swept for a given min_size
RootDims(m) == IF m = 1 THEN UnitRoot ELSE MaxRoot

InitTree ==
    /\ pc = "partition"
    /\ \E m \in 1..MaxMinSize :
       \E w \in 1..RootDims(m), h \in 1..RootDims(m) :
          /\ root = Rect(0, 0, w, h)
          /\ min_size = m
    /\ todo = <<root>>
    /\ leaves = <<>> /\ draws = 0 /\ node = NoNode
    /\ IdleProj /\ IdleJoin /\ IdleMap /\ IdleGraph
    /\ i = 0 /\ err = "none"

NextTree == GenerateTreeCall \/ TreeDone

SpecTree == InitTree /\ [][NextTree]_vars

----------------------------------------------------------------------------
(* generate.py: rooms and shrink_rooms *)

\* Room.__init__
Room(rect) == [rects |-> <<rect>>, connections |-> {}]

\* nrand(0.25, 0.05, 0.15) is a fraction in [0.10, 0.40], written here in
\* percent. AllPercents covers every value int(f * dim) can take for
\* dim <= 100; TopPercent is the upper end alone.
AllPercents == 10..40
TopPercent == {40}

\* Which of the four sides (left, right, top, bottom) shrink: the outcomes of
\* the four tests random.random() < shrink_chance. AllSides is every
\* outcome; SomeSides is the part of them the Map sweep draws from.
AllSides == BOOLEAN \X BOOLEAN \X BOOLEAN \X BOOLEAN
SomeSides ==
    {<<FALSE, FALSE, FALSE, FALSE>>, <<TRUE, TRUE, TRUE, TRUE>>,
     <<TRUE, FALSE, FALSE, FALSE>>, <<FALSE, TRUE, FALSE, FALSE>>,
     <<FALSE, FALSE, TRUE, FALSE>>, <<FALSE, FALSE, FALSE, TRUE>>,
     <<TRUE, FALSE, TRUE, FALSE>>, <<FALSE, TRUE, FALSE, TRUE>>}

\* A slip in shrink_rooms: the amount is rounded up instead of truncated
shrink_ceil(pct, dim) == (pct * dim + 99) \div 100

\* shrink = int(nrand(percent, 0.05, 0.15) * dim)
shrink_amount(pct, dim) == (pct * dim) \div 100

\* What one side can lose: nothing when its test fails, else a drawn
\* fraction of the current dimension
SideShrinks(P, dim, shrinks) ==
    IF shrinks THEN {shrink_amount(pct, dim) : pct \in P} ELSE {0}

\* The body of shrink_rooms' loop for one rectangle: left, right, top and
\* bottom in this order, each amount taken from the dimension as the
\* earlier sides left it.
ShrunkRects(P, D, r) ==
    UNION {UNION {UNION {UNION {
        {Rect(r.x + sl, r.y + st, r.w - sl - sr, r.h - st - sb) :
            sb \in SideShrinks(P, r.h - st, d[4])} :
          st \in SideShrinks(P, r.h, d[3])} :
        sr \in SideShrinks(P, r.w - sl, d[2])} :
      sl \in SideShrinks(P, r.w, d[1])} :
    d \in D}

\* One iteration of shrink_rooms' loop (lines 146-169), on room i, with the
\* fractions drawn from P and the sides that shrink from D
ShrinkRoom(P, D) ==
    /\ pc = "shrink"
    /\ i <= Len(rooms)
    /\ \E r2 \in ShrunkRects(P, D, rooms[i].rects[1]) :
          rooms' = [rooms EXCEPT ![i].rects[1] = r2]
    /\ i' = i + 1
    /\ IF i = Len(rooms)
       THEN pc' = "shrunk" /\ stages' = Append(stages, "shape")
       ELSE pc' = pc /\ stages' = stages
    /\ UNCHANGED <<width, height, tiles, projVars, joinVars, treeVars, graphVars, err>>

InitShrink ==
    /\ pc = "shrink"
    /\ i = 1
    /\ \E n \in 1..MaxShrinkRooms, w \in 1..MaxDim, h \in 1..MaxDim :
          rooms = [k \in 1..n |-> Room(Rect(0, 0, w, h))]
    /\ width = 0 /\ height = 0 /\ tiles = <<>> /\ stages = <<>>
    /\ IdleProj /\ IdleJoin /\ IdleTree /\ IdleGraph
    /\ err = "none"

NextShrink == ShrinkRoom(AllPercents, AllSides)

SpecShrink == InitShrink /\ [][NextShrink]_vars

----------------------------------------------------------------------------
(* generate.py: build_graph *)

K == 4

\* dist(a, b): Manhattan distance
dist(a, b) == Abs(a.x - b.x) + Abs(a.y - b.y)

\* Rect.center
rect_center(r) == Int2(r.x + r.w \div 2, r.y + r.h \div 2)

RECURSIVE SumCenters(_, _)
SumCenters(rects, n) ==
    IF n = 0 THEN Int2(0, 0)
    ELSE LET rest == SumCenters(rects, n - 1)
             c == rect_center(rects[n])
         IN  Int2(rest.x + c.x, rest.y + c.y)

\* Room.center: sum of the rectangles' centers // len(rects)
center(room) ==
    LET total == SumCenters(room.rects, Len(room.rects))
    IN  Int2(total.x \div Len(room.rects), total.y \div Len(room.rects))

\* centers = [room.center for room in self.rooms]
centers == [k \in 1..Len(rooms) |-> center(rooms[k])]

\* (d1, j1) < (d2, j2) as Python compares tuples
TupleLess(d1, j1, d2, j2) == d1 < d2 \/ (d1 = d2 /\ j1 < j2)

\* The rooms of distances[:K] for room k: distances holds (dist, j) for every
\* j # k and is sorted, so j is in the slice iff fewer than K entries
\* precede (dist(ck, cj), j).
Nearest(k) ==
    {j \in (1..Len(rooms)) \ {k} :
        Cardinality({j2 \in (1..Len(rooms)) \ {k} :
            TupleLess(dist(centers[k], centers[j2]), j2,
                      dist(centers[k], centers[j]), j)}) < K}

\* The tuple (a, b, weight) with a, b = sorted((i, j))
CandidateEdge(k, j) ==
    [a |-> Min(k, j), b |-> Max(k, j),
     w |-> dist(centers[Min(k, j)], centers[Max(k, j)])]

\* find(x), with its path halving: <<root, parent afterwards>>
RECURSIVE find(_, _)
find(par, x) ==
    IF par[x] = x THEN <<x, par>>
    ELSE LET par2 == [par EXCEPT ![x] = par[par[x]]]
         IN  find(par2, par2[x])

\* A slip in union(): the arguments are linked instead of their roots
union_args(par, a, b) ==
    LET fa == find(par, a)
        fb == find(fa[2], b)
    IN  IF fa[1] # fb[1]
        THEN [ok |-> TRUE, parent |-> [fb[2] EXCEPT ![b] = a]]
        ELSE [ok |-> FALSE, parent |-> fb[2]]

\* union(a, b): whether it joined two components, and parent afterwards
union(par, a, b) ==
    LET fa == find(par, a)
        fb == find(fa[2], b)
    IN  IF fa[1] # fb[1]
        THEN [ok |-> TRUE, parent |-> [fb[2] EXCEPT ![fb[1]] = fa[1]]]
        ELSE [ok |-> FALSE, parent |-> fb[2]]

\* A slip in build_graph: the connection is recorded on one room only
connect_oneway(rs, a, b) ==
    [rs EXCEPT ![a].connections = @ \cup {b}]

\* rooms[a].connections.add(b); rooms[b].connections.add(a)
connect(rs, a, b) ==
    [rs EXCEPT ![a].connections = @ \cup {b}, ![b].connections = @ \cup {a}]

\* Lines 296-331: the candidate loop over all rooms, then parent and
\* edges_sorted. distances[0] raises IndexError in the first iteration when
\* there is no other room.
BuildCandidates ==
    /\ pc = "graph"
    /\ IF Len(rooms) = 1
       THEN /\ err' = "IndexError"
            /\ pc' = "raised"
            /\ UNCHANGED <<candidate_edges, parent, edges_left>>
       ELSE /\ candidate_edges' =
                  {CandidateEdge(k, j) : <<k, j>> \in
                      {q \in (1..Len(rooms)) \X (1..Len(rooms)) : q[2] \in Nearest(q[1])}}
            /\ parent' = [k \in 1..Len(rooms) |-> k]
            /\ edges_left' = candidate_edges'
            /\ pc' = "kruskal"
            /\ err' = err
    /\ UNCHANGED <<i, accepted, mapVars, projVars, joinVars, treeVars>>

\* One iteration of the loop over edges_sorted (lines 336-339). The sort is
\* by weight only and stable, and candidate_edges is a set, so edges of
\* equal weight come in the set's iteration order: any of the lightest
\* remaining edges can be next.
KruskalEdge ==
    /\ pc = "kruskal"
    /\ edges_left # {}
    /\ \E e \in edges_left :
          /\ \A e2 \in edges_left : e.w <= e2.w
          /\ LET u == union(parent, e.a, e.b) IN
             /\ parent' = u.parent
             /\ rooms' = IF u.ok THEN connect(rooms, e.a, e.b) ELSE rooms
             /\ accepted' = IF u.ok THEN accepted + 1 ELSE accepted
          /\ edges_left' = edges_left \ {e}
    /\ UNCHANGED <<pc, i, candidate_edges, err, width, height, tiles, stages,
                   projVars, joinVars, treeVars>>

\* build_graph returns
GraphDone ==
    /\ pc = "kruskal"
    /\ edges_left = {}
    /\ pc' = "join"
    /\ stages' = Append(stages, "build-graph")
    /\ UNCHANGED <<i, candidate_edges, edges_left, parent, accepted, err,
                   width, height, rooms, tiles, projVars, joinVars, treeVars>>

\* Room layouts of the sweep: 3x3 rooms on a grid of pitch 4 (so no two
\* touch), in two rows
GridRoom(col, row) == Room(Rect(4 * col, 4 * row, 3, 3))

\* Six rooms in a row: each room's K nearest leave some room out
RowOfSix == [k \in 1..6 |-> GridRoom(k - 1, 0)]

\* Two groups of five rooms far apart: no candidate edge joins the groups
TwoGroups ==
    [k \in 1..10 |->
        IF k <= 5 THEN GridRoom((k - 1) % 3, (k - 1) \div 3)
        ELSE GridRoom(20 + ((k - 6) % 3), (k - 6) \div 3)]

InitGraph ==
    /\ pc = "graph"
    /\ i = 0
    /\ \/ \E n \in 2..MaxGraphRooms :
            \E place \in [1..n -> (0..MaxCol) \X (0..1)] :
               /\ \A k1, k2 \in 1..n : k1 # k2 => place[k1] # place[k2]
               /\ rooms = [k \in 1..n |-> GridRoom(place[k][1], place[k][2])]
       \/ rooms \in {RowOfSix, TwoGroups}
    /\ width = 0 /\ height = 0 /\ tiles = <<>> /\ stages = <<>>
    /\ IdleProj /\ IdleJoin /\ IdleTree /\ IdleGraph
    /\ err = "none"

NextGraph == BuildCandidates \/ KruskalEdge \/ GraphDone

SpecGraph == InitGraph /\ [][NextGraph]_vars

----------------------------------------------------------------------------
(* generate.py: Map.__init__ and the stages it calls *)

MinSize == 8
offs == 10

\* Rect.edge(dir)
edge(r, d) ==
    CASE d = TOP -> Edge(Int2(r.x, r.y), r.w, d)
      [] d = RIGHT -> Edge(Int2(r.x + r.w - 1, r.y), r.h, d)
      [] d = BOTTOM -> Edge(Int2(r.x + r.w - 1, r.y + r.h - 1), r.w, d)
      [] OTHER -> Edge(Int2(r.x, r.y + r.h - 1), r.h, d)

\* intervals_overlap_strict
intervals_overlap_strict(a0, a1, b0, b1) == Min(a1, b1) > Max(a0, b0)

\* Rect.touches_along_edge, with x1 = x + w and y1 = y + h
touches_along_edge(a, b) ==
    IF a.x + a.w = b.x \/ a.x = b.x + b.w
    THEN intervals_overlap_strict(a.y, a.y + a.h, b.y, b.y + b.h)
    ELSE IF a.y = b.y + b.h \/ a.y + a.h = b.y
    THEN intervals_overlap_strict(a.x, a.x + a.w, b.x, b.x + b.w)
    ELSE FALSE

SeqToSet(q) == {q[n] : n \in 1..Len(q)}

\* A slip in merge_rooms: only the rooms' first rectangles are compared
RECURSIVE MergeLoop_first_rects(_, _, _)
MergeLoop_first_rects(rs, a, b) ==
    IF a > Len(rs) THEN rs
    ELSE IF b > Len(rs) THEN MergeLoop_first_rects(rs, a + 1, 1)
    ELSE IF a = b \/ Len(rs[b].rects) = 0 \/ Len(rs[a].rects) = 0
    THEN MergeLoop_first_rects(rs, a, b + 1)
    ELSE IF touches_along_edge(rs[a].rects[1], rs[b].rects[1])
    THEN MergeLoop_first_rects(
             [rs EXCEPT ![a].rects = @ \o rs[b].rects, ![b].rects = <<>>], a, b + 1)
    ELSE MergeLoop_first_rects(rs, a, b + 1)

\* A slip in merge_rooms: room2.rects is not emptied after the extend
RECURSIVE MergeLoop_keep(_, _, _)
MergeLoop_keep(rs, a, b) ==
    IF a > Len(rs) THEN rs
    ELSE IF b > Len(rs) THEN MergeLoop_keep(rs, a + 1, 1)
    ELSE IF a = b \/ Len(rs[b].rects) = 0 THEN MergeLoop_keep(rs, a, b + 1)
    ELSE IF \E r1 \in SeqToSet(rs[a].rects), r2 \in SeqToSet(rs[b].rects) :
                touches_along_edge(r1, r2)
    THEN MergeLoop_keep([rs EXCEPT ![a].rects = @ \o rs[b].rects], a, b + 1)
    ELSE MergeLoop_keep(rs, a, b + 1)

\* The loops of merge_rooms (lines 283-292) from the pair (a, b) on. For a
\* pair with a # b and room b not empty, the two inner loops find whether
\* any rectangle of room a touches any of room b; at the first touch room b's
\* rectangles are appended to room a and room b is emptied, which ends the
\* inner loops for this pair.
RECURSIVE MergeLoop(_, _, _)
MergeLoop(rs, a, b) ==
    IF a > Len(rs) THEN rs
    ELSE IF b > Len(rs) THEN MergeLoop(rs, a + 1, 1)
    ELSE IF a = b \/ Len(rs[b].rects) = 0 THEN MergeLoop(rs, a, b + 1)
    ELSE IF \E r1 \in SeqToSet(rs[a].rects), r2 \in SeqToSet(rs[b].rects) :
                touches_along_edge(r1, r2)
    THEN MergeLoop([rs EXCEPT ![a].rects = @ \o rs[b].rects, ![b].rects = <<>>],
                   a, b + 1)
    ELSE MergeLoop(rs, a, b + 1)

\* merge_rooms: the loops, then the rooms that still have rectangles
merge_rooms(rs) ==
    LET merged == MergeLoop(rs, 1, 1)
    IN  SelectSeq(merged, LAMBDA room : Len(room.rects) > 0)

\* The index of cell (x, y) in Map.tiles
CellIndex(cx, cy) == cx + width * cy

\* Whether draw_rooms writes cell (cx, cy) for room k: the cell lies in one
\* of the room's rectangles. (Rectangles never leave the grid, so distinct
\* cells have distinct indexes.)
RoomCovers(rs, k, cx, cy) ==
    \E n \in 1..Len(rs[k].rects) :
        LET r == rs[k].rects[n]
        IN  /\ r.x <= cx /\ cx < r.x + r.w
            /\ r.y <= cy /\ cy < r.y + r.h

\* A slip in draw_rooms: the room is numbered from 1
room_tile_from1(k) == k + offs

\* The tile id draw_rooms writes for room k: i + offs with Python's index i
room_tile(k) == (k - 1) + offs

\* draw_rooms: rooms are drawn in list order, so a cell keeps the id of the
\* last room that covers it
draw_rooms(t, rs) ==
    [n \in 1..Len(t) |->
        LET owners == {k \in 1..Len(rs) :
                          RoomCovers(rs, k, (n - 1) % width, (n - 1) \div width)}
        IN  IF owners = {} THEN t[n]
            ELSE room_tile(CHOOSE k \in owners : \A k2 \in owners : k2 <= k)]

\* ldraw with its `return` left out: the loops run and plot from a.mid on
ldraw_no_return(ea, eb) ==
    IF mid(ea) # mid(eb) THEN {CellIndex(mid(ea).x, mid(ea).y)} ELSE {}

\* The tile indexes ldraw(a, b) plots: none, it returns (line 203) before
\* its loops
ldraw(ea, eb) == {}

\* The fallback of join_rects (lines 247-259): dists holds (d, i, j) for each
\* edge i of a and the two edges j = (i - 1) & 3 and (i + 1) & 3 of b, with d
\* the distance between the edges' middles; dists.sort() puts the smallest
\* triple first.
FallbackEdges(a, b) ==
    LET dists == {<<dist(mid(edge(a, ei)), mid(edge(b, ej))), ei, ej>> :
                     ei \in 0..3, ej \in 0..3}
        listed == {t \in dists : t[3] = (t[2] + 3) % 4 \/ t[3] = (t[2] + 1) % 4}
        less(t, u) == \/ t[1] < u[1]
                      \/ (t[1] = u[1] /\ TupleLess(t[2], t[3], u[2], u[3]))
        first == CHOOSE t \in listed : \A u \in listed : u # t => less(t, u)
    IN  <<first[2], first[3]>>

\* Whether join_rects(a, b) carves top to bottom (line 228), and if not,
\* left to right (line 237)
DirectVert(a, b) ==
    project(edge(a, TOP), edge(b, BOTTOM)) # None
        /\ edge(a, TOP).pos.y > edge(b, BOTTOM).pos.y
DirectHoriz(a, b) ==
    /\ ~DirectVert(a, b)
    /\ project(edge(a, LEFT), edge(b, RIGHT)) # None
    /\ edge(a, LEFT).pos.x > edge(b, RIGHT).pos.x

\* A slip in join_rects: p is advanced before it is plotted
join_rects_late_plot(a, b) ==
    LET v1 == edge(b, BOTTOM)
        vp == project(edge(a, TOP), v1)
        h1 == edge(b, RIGHT)
        hp == project(edge(a, LEFT), h1)
    IN  IF DirectVert(a, b)
        THEN {CellIndex(mid(vp[1]).x, py) : py \in v1.pos.y..(mid(vp[1]).y - 1)}
        ELSE IF DirectHoriz(a, b)
        THEN {CellIndex(px, mid(hp[1]).y) : px \in h1.pos.x..(mid(hp[1]).x - 1)}
        ELSE {}

\* The tile indexes join_rects(a, b) plots. A direct carve starts at
\* p = proj.mid and repeats plot(p); p += proj.norm while p has not reached
\* b's edge coordinate: proj.norm is (0, -1) for the TOP edge and (-1, 0)
\* for the LEFT edge, so the run goes from proj.mid down to the coordinate
\* next to b's, and the cell at b's coordinate ends the loop unplotted.
\* Otherwise the fallback picks a pair of edges and calls ldraw.
join_rects(a, b) ==
    LET v1 == edge(b, BOTTOM)
        vp == project(edge(a, TOP), v1)
        h1 == edge(b, RIGHT)
        hp == project(edge(a, LEFT), h1)
    IN  IF DirectVert(a, b)
        THEN {CellIndex(mid(vp[1]).x, py) : py \in (v1.pos.y + 1)..mid(vp[1]).y}
        ELSE IF DirectHoriz(a, b)
        THEN {CellIndex(px, mid(hp[1]).y) : px \in (h1.pos.x + 1)..mid(hp[1]).x}
        ELSE ldraw(edge(a, FallbackEdges(a, b)[1]), edge(b, FallbackEdges(a, b)[2]))

\* The rectangle of rects that sorted([(dist(r.center, target), i)])[0] names
ClosestRect(rects, target) ==
    LET key(n) == dist(rect_center(rects[n]), target)
        best == CHOOSE n \in 1..Len(rects) :
                    \A n2 \in 1..Len(rects) :
                        n2 # n => TupleLess(key(n), n, key(n2), n2)
    IN  rects[best]

\* A slip in join_rooms: closest2 is taken nearest to the room's centre, not
\* to the centre of closest
ClosestPair_room_center(rs, k, c) ==
    LET near == ClosestRect(rs[k].rects, center(rs[c]))
        near2 == ClosestRect(rs[c].rects, center(rs[k]))
    IN  <<near, near2>>

\* The pair join_rooms passes to join_rects for room k and its connection c
ClosestPair(rs, k, c) ==
    LET near == ClosestRect(rs[k].rects, center(rs[c]))
        near2 == ClosestRect(rs[c].rects, rect_center(near))
    IN  <<near, near2>>

\* The tile indexes join_rooms plots for room k, over all its connections
JoinIndexes(rs, k) ==
    UNION {join_rects(ClosestPair(rs, k, c)[1], ClosestPair(rs, k, c)[2]) :
              c \in rs[k].connections}

\* Map.__init__ line 132: rooms from the leaves
Extract ==
    /\ pc = "partitioned"
    /\ rooms' = [k \in 1..Len(leaves) |-> Room(leaves[k])]
    /\ pc' = "shrink"
    /\ i' = 1
    /\ stages' = Append(stages, "extract")
    /\ UNCHANGED <<width, height, tiles, projVars, joinVars, treeVars, graphVars, err>>

\* A slip in Map.__init__: the call of merge_rooms is left out
AllocTiles_skip_merge ==
    /\ pc = "shrunk"
    /\ tiles' = [n \in 1..(width * height) |-> 0]
    /\ pc' = "draw"
    /\ UNCHANGED <<width, height, rooms, stages, i, projVars, joinVars, treeVars, graphVars, err>>

\* Map.__init__ line 134: the grid, all zero
AllocTiles ==
    /\ pc = "shrunk"
    /\ tiles' = [n \in 1..(width * height) |-> 0]
    /\ pc' = "merge"
    /\ UNCHANGED <<width, height, rooms, stages, i, projVars, joinVars, treeVars, graphVars, err>>

\* Map.__init__ line 135
MergeRooms ==
    /\ pc = "merge"
    /\ rooms' = merge_rooms(rooms)
    /\ pc' = "draw"
    /\ stages' = Append(stages, "merge")
    /\ UNCHANGED <<width, height, tiles, i, projVars, joinVars, treeVars, graphVars, err>>

\* Map.__init__ line 136
DrawRooms ==
    /\ pc = "draw"
    /\ tiles' = draw_rooms(tiles, rooms)
    /\ pc' = "graph"
    /\ stages' = Append(stages, "fill-ids")
    /\ UNCHANGED <<width, height, rooms, i, projVars, joinVars, treeVars, graphVars, err>>

\* Map.__init__ line 138: join_rooms (lines 263-279) over every room and
\* every connection. All plots write tile 1 and join_rects reads no tile,
\* so the order in which rooms and connection sets are walked does not show
\* in the grid. A plot outside the array raises IndexError (a negative
\* index counts from the end).
JoinRooms ==
    /\ pc = "join"
    /\ \E plots \in {UNION {JoinIndexes(rooms, k) : k \in 1..Len(rooms)}} :
       IF \E n \in plots : n >= Len(tiles) \/ n < -Len(tiles)
       THEN /\ err' = "IndexError"
            /\ pc' = "raised"
            /\ UNCHANGED <<tiles, stages>>
       ELSE /\ tiles' = [n \in 1..Len(tiles) |->
                           IF (n - 1) \in plots \/ (n - 1 - Len(tiles)) \in plots
                           THEN 1 ELSE tiles[n]]
            /\ pc' = "done"
            /\ stages' = Append(stages, "carve")
            /\ err' = err
    /\ UNCHANGED <<width, height, rooms, i, projVars, joinVars, treeVars, graphVars>>

\* The map sizes of the sweep: the smallest valid one for min_size = 8
MapSizes == {<<2 * MinSize, 2 * MinSize>>}

InitMap ==
    /\ pc = "partition"
    /\ \E size \in MapSizes : width = size[1] /\ height = size[2]
    /\ root = Rect(0, 0, width, height)
    /\ min_size = MinSize
    /\ todo = <<root>>
    /\ leaves = <<>> /\ draws = 0 /\ node = NoNode
    /\ rooms = <<>> /\ tiles = <<>> /\ stages = <<>>
    /\ IdleProj /\ IdleJoin /\ IdleGraph
    /\ i = 0 /\ err = "none"

NextMap ==
    \/ GenerateTreeCall
    \/ TreeDone
    \/ Extract
    \/ ShrinkRoom(TopPercent, SomeSides)
    \/ AllocTiles
    \/ MergeRooms
    \/ DrawRooms
    \/ BuildCandidates
    \/ KruskalEdge
    \/ GraphDone
    \/ JoinRooms

SpecMap == InitMap /\ [][NextMap]_vars

----------------------------------------------------------------------------
(* generate.py: join_rooms, one join_rects call at a time, on two connected *)
(* rooms of one or two rectangles each                                      *)

\* Rectangles of the grid that share no cell
Disjoint(a, b) ==
    \/ a.x + a.w <= b.x \/ b.x + b.w <= a.x
    \/ a.y + a.h <= b.y \/ b.y + b.h <= a.y

\* The rectangles of the sweep: sides up to JoinLen, inside the grid
JoinRects ==
    {r \in {Rect(px, py, pw, ph) : px \in 0..(JoinGrid - 1), py \in 0..(JoinGrid - 1),
                                   pw \in 1..JoinLen, ph \in 1..JoinLen} :
        r.x + r.w <= JoinGrid /\ r.y + r.h <= JoinGrid}

\* Rectangle lists of a room as merge_rooms leaves them: one rectangle, or
\* two that touch along an edge (those in the two top rows of the grid)
JoinRectLists ==
    {<<r>> : r \in JoinRects} \cup
    UNION {{<<r, r2>> : r2 \in {q \in JoinRects : /\ q.y + q.h <= 2
                                                  /\ Disjoint(r, q)
                                                  /\ touches_along_edge(r, q)}} :
              r \in {q \in JoinRects : q.y + q.h <= 2}}

\* Two rooms that merge_rooms did not fuse, joined by build_graph
JoinLayouts ==
    {<<[rects |-> pair[1], connections |-> {2}],
       [rects |-> pair[2], connections |-> {1}]>> :
        pair \in {pq \in JoinRectLists \X JoinRectLists :
            \A r \in SeqToSet(pq[1]), r2 \in SeqToSet(pq[2]) :
                Disjoint(r, r2) /\ ~touches_along_edge(r, r2)}}

\* One pass of join_rooms' inner loop (lines 265-279): the next connection c
\* of the first room k that has connections left, the selection of closest
\* and closest2, and the call of join_rects
JoinRectsCall ==
    /\ pc = "join"
    /\ pending # {}
    /\ \E kc \in pending :
        /\ \A other \in pending : kc[1] <= other[1]
        /\ \E pair \in {ClosestPair(rooms, kc[1], kc[2])} :
           \E plots \in {join_rects(pair[1], pair[2])} :
              /\ closest' = pair[1]
              /\ closest2' = pair[2]
              /\ pending' = pending \ {kc}
              /\ IF \E n \in plots : n >= Len(tiles) \/ n < -Len(tiles)
                 THEN /\ err' = "IndexError"
                      /\ pc' = "raised"
                      /\ tiles' = tiles
                 ELSE /\ tiles' = [n \in 1..Len(tiles) |->
                                     IF (n - 1) \in plots \/ (n - 1 - Len(tiles)) \in plots
                                     THEN 1 ELSE tiles[n]]
                      /\ pc' = IF pending \ {kc} = {} THEN "done" ELSE "join"
                      /\ err' = err
    /\ UNCHANGED <<width, height, rooms, stages, i, projVars, treeVars, graphVars>>

InitJoin ==
    /\ pc = "join"
    /\ width = JoinGrid /\ height = JoinGrid
    /\ rooms \in JoinLayouts
    /\ tiles = draw_rooms([n \in 1..(width * height) |-> 0], rooms)
    /\ stages = <<>>
    /\ closest = NoRect /\ closest2 = NoRect
    /\ pending = {<<1, 2>>, <<2, 1>>}
    /\ IdleProj /\ IdleTree /\ IdleGraph
    /\ i = 0 /\ err = "none"

NextJoin == JoinRectsCall

SpecJoin == InitJoin /\ [][NextJoin]_vars

----------------------------------------------------------------------------
(* Claims about join_rooms and join_rects *)

\* A step in which join_rooms has made one join_rects call
JoinStep == pc = "join" /\ pending' # pending

\* Column and row of the cell with index n - 1
ColOf(n) == (n - 1) % width
RowOf(n) == (n - 1) \div width

\* The cell of a grid t at column cx, row cy
TileAt(t, cx, cy) == t[cx + width * cy + 1]

\* The middle of the projection of a's top edge on b's bottom edge, and of
\* a's left edge on b's right edge
VertMid(a, b) == mid(project(edge(a, TOP), edge(b, BOTTOM))[1])
HorizMid(a, b) == mid(project(edge(a, LEFT), edge(b, RIGHT))[1])

\* b's edge coordinate: the row of its bottom edge, the column of its right edge
BottomRow(b) == edge(b, BOTTOM).pos.y
RightCol(b) == edge(b, RIGHT).pos.x

NoDirectCarve(a, b) == ~DirectVert(a, b) /\ ~DirectHoriz(a, b)

\* C12 as stated: a direct carve writes 1 to every cell from the projection
\* midpoint to the cell at B's edge coordinate, both the start cell and the
\* end cell included.
C12_Original ==
    [][JoinStep =>
        /\ DirectVert(closest', closest2') =>
              \A cy \in BottomRow(closest2')..VertMid(closest', closest2').y :
                  TileAt(tiles', VertMid(closest', closest2').x, cy) = 1
        /\ DirectHoriz(closest', closest2') =>
              \A cx \in RightCol(closest2')..HorizMid(closest', closest2').x :
                  TileAt(tiles', cx, HorizMid(closest', closest2').y) = 1
      ]_vars

\* C12 as amended: a direct carve writes 1 to every cell from the projection
\* midpoint up to, but not including, the cell at B's edge coordinate: the
\* start cell is written, the end cell is left as it was.
C12_DirectCarve ==
    [][JoinStep =>
        /\ DirectVert(closest', closest2') =>
              /\ \A cy \in (BottomRow(closest2') + 1)..VertMid(closest', closest2').y :
                    TileAt(tiles', VertMid(closest', closest2').x, cy) = 1
              /\ TileAt(tiles', VertMid(closest', closest2').x, BottomRow(closest2'))
                    = TileAt(tiles, VertMid(closest', closest2').x, BottomRow(closest2'))
        /\ DirectHoriz(closest', closest2') =>
              /\ \A cx \in (RightCol(closest2') + 1)..HorizMid(closest', closest2').x :
                    TileAt(tiles', cx, HorizMid(closest', closest2').y) = 1
              /\ TileAt(tiles', RightCol(closest2'), HorizMid(closest', closest2').y)
                    = TileAt(tiles, RightCol(closest2'), HorizMid(closest', closest2').y)
      ]_vars

\* A vertical carve of two cells or more, whose end cell is still B's floor
C12_Witness ==
    /\ closest # NoRect
    /\ DirectVert(closest, closest2)
    /\ VertMid(closest, closest2).y - BottomRow(closest2) >= 2
    /\ TileAt(tiles, VertMid(closest, closest2).x, VertMid(closest, closest2).y) = 1
    /\ TileAt(tiles, VertMid(closest, closest2).x, BottomRow(closest2) + 1) = 1
    /\ TileAt(tiles, VertMid(closest, closest2).x, BottomRow(closest2)) >= offs

\* The distance between the centres of two rectangles
CenterDist(a, b) == dist(rect_center(a), rect_center(b))

\* The room that owns rectangle r
RoomOf(r) == CHOOSE k \in 1..Len(rooms) : r \in SeqToSet(rooms[k].rects)

\* C13 as stated: the pair join_rooms passes to join_rects has the smallest
\* centre distance of all pairs of a rectangle of room i and one of room j.
C13_Original ==
    closest # NoRect =>
        \A r \in SeqToSet(rooms[RoomOf(closest)].rects),
           r2 \in SeqToSet(rooms[RoomOf(closest2)].rects) :
            CenterDist(closest, closest2) <= CenterDist(r, r2)

\* C13 as amended: A is a rectangle of room i whose centre is nearest to the
\* centre of room j, and B is a rectangle of room j whose centre is nearest to
\* A's centre.
C13_NearestInTurn ==
    closest # NoRect =>
        /\ RoomOf(closest2) \in rooms[RoomOf(closest)].connections
        /\ \A r \in SeqToSet(rooms[RoomOf(closest)].rects) :
              dist(rect_center(closest), center(rooms[RoomOf(closest2)]))
                  <= dist(rect_center(r), center(rooms[RoomOf(closest2)]))
        /\ \A r2 \in SeqToSet(rooms[RoomOf(closest2)].rects) :
              CenterDist(closest, closest2) <= CenterDist(closest, r2)

\* Two rooms of two rectangles each, and a pair that is not the closest one
C13_Witness ==
    /\ closest # NoRect
    /\ Len(rooms[1].rects) = 2 /\ Len(rooms[2].rects) = 2
    /\ \E r \in SeqToSet(rooms[RoomOf(closest)].rects),
          r2 \in SeqToSet(rooms[RoomOf(closest2)].rects) :
            CenterDist(r, r2) < CenterDist(closest, closest2)

\* C15: when neither direct carve applies, the join_rects call leaves the
\* tile grid as it was.
C15_FallbackNoWrite ==
    [][(JoinStep /\ NoDirectCarve(closest', closest2')) => tiles' = tiles]_vars

\* A fallback call for a room that lies above the other one; no tunnel yet
C15_Witness ==
    /\ closest # NoRect
    /\ NoDirectCarve(closest, closest2)
    /\ closest.y + closest.h < closest2.y
    /\ \A n \in 1..Len(tiles) : tiles[n] # 1

\* C17: the column of a direct vertical carve lies in the column range of
\* both rectangles, and the row of a direct horizontal carve in the row range
\* of both.
C17_CarveInsideBoth ==
    [][JoinStep =>
        \A n \in 1..Len(tiles) : tiles'[n] # tiles[n] =>
            /\ DirectVert(closest', closest2') =>
                  /\ closest'.x <= ColOf(n) /\ ColOf(n) <= closest'.x + closest'.w - 1
                  /\ closest2'.x <= ColOf(n) /\ ColOf(n) <= closest2'.x + closest2'.w - 1
            /\ DirectHoriz(closest', closest2') =>
                  /\ closest'.y <= RowOf(n) /\ RowOf(n) <= closest'.y + closest'.h - 1
                  /\ closest2'.y <= RowOf(n) /\ RowOf(n) <= closest2'.y + closest2'.h - 1
      ]_vars

\* A vertical carve in the column left of B: its last cell has no floor
\* cell of B above it
C17_CarveBesideB ==
    /\ closest # NoRect
    /\ DirectVert(closest, closest2)
    /\ VertMid(closest, closest2).x = closest2.x - 1

----------------------------------------------------------------------------
(* generate.py: merge_rooms on lists of one-rectangle rooms, as            *)
(* shrink_rooms leaves them                                                *)

\* The rectangles of the sweep: one cell high and one or two cells wide, in
\* a grid MergeGrid wide and two rows high
MergeRects ==
    {r \in {Rect(px, py, pw, 1) : px \in 0..(MergeGrid - 1), py \in 0..1, pw \in 1..2} :
        r.x + r.w <= MergeGrid}

\* The lists of n rooms over rectangles that share no cell, in every order
RECURSIVE MergeLists(_)
MergeLists(n) ==
    IF n = 0 THEN {<<>>}
    ELSE UNION {{Append(q, Room(r)) :
                    r \in {r2 \in MergeRects :
                              \A m \in 1..Len(q) : Disjoint(r2, q[m].rects[1])}} :
                  q \in MergeLists(n - 1)}

\* The rooms of a 40 by 24 map that the generator produced, before merge_rooms
ObservedRooms ==
    <<Room(Rect(2, 2, 8, 7)), Room(Rect(10, 2, 9, 8)), Room(Rect(2, 10, 7, 11)),
      Room(Rect(9, 14, 10, 8)), Room(Rect(19, 0, 21, 24))>>

\* Map.__init__ up to line 134: the rooms are shrunk and the grid is zero
InitMerge ==
    /\ pc = "merge"
    /\ \/ /\ width = MergeGrid /\ height = 2
          /\ \E n \in 2..MaxMergeRooms : rooms \in MergeLists(n)
       \/ /\ width = 40 /\ height = 24
          /\ rooms = ObservedRooms
    /\ tiles = [n \in 1..(width * height) |-> 0]
    /\ stages = <<"partition", "extract", "shape">>
    /\ IdleProj /\ IdleJoin /\ IdleTree /\ IdleGraph
    /\ i = 0 /\ err = "none"

NextMerge == MergeRooms

SpecMerge == InitMerge /\ [][NextMerge]_vars

----------------------------------------------------------------------------
(* Claims about merge_rooms *)

\* Two distinct rooms of rs own rectangles that touch along an edge
ResidualTouch(rs) ==
    \E k \in 1..Len(rs), k2 \in 1..Len(rs) :
        /\ k # k2
        /\ \E r \in SeqToSet(rs[k].rects), r2 \in SeqToSet(rs[k2].rects) :
              touches_along_edge(r, r2)

\* C14: merge_rooms is one pass and not a fixed point: where two surviving
\* rooms still touch after the call (such lists exist: the witness), a
\* second call merges further; where none touch, a second call changes
\* nothing.
C14_SinglePass ==
    pc = "draw" =>
        IF ResidualTouch(rooms)
        THEN Len(merge_rooms(rooms)) < Len(rooms)
        ELSE merge_rooms(rooms) = rooms

\* After the call, two surviving rooms still touch along an edge
C14_Witness == pc = "draw" /\ ResidualTouch(rooms)

\* The same, for the rooms of the 40 by 24 map
C14_ObservedResidue ==
    pc = "draw" /\ width = 40 /\ Len(rooms) = 2 /\ ResidualTouch(rooms)

\* How many times rectangle r occurs in the rooms of rs
RectCount(rs, r) ==
    Cardinality({kn \in UNION {{<<k, n>> : n \in 1..Len(rs[k].rects)} : k \in 1..Len(rs)} :
                    rs[kn[1]].rects[kn[2]] = r})

AllRects(rs) == UNION {SeqToSet(rs[k].rects) : k \in 1..Len(rs)}

\* The position in rs of the room whose first rectangle is r (0 if none)
FirstRectIndex(rs, r) ==
    IF \E k \in 1..Len(rs) : rs[k].rects # <<>> /\ rs[k].rects[1] = r
    THEN CHOOSE k \in 1..Len(rs) : rs[k].rects # <<>> /\ rs[k].rects[1] = r
    ELSE 0

\* C16: merge_rooms keeps the multiset of rectangles, leaves no room with an
\* empty rectangle list, and keeps the surviving rooms in their order.
C16_MergeConserves ==
    [][(pc = "merge" /\ pc' = "draw") =>
        /\ \A r \in AllRects(rooms) \cup AllRects(rooms') :
              RectCount(rooms', r) = RectCount(rooms, r)
        /\ \A k \in 1..Len(rooms') : rooms'[k].rects # <<>>
        /\ \A k \in 1..Len(rooms') :
              FirstRectIndex(rooms, rooms'[k].rects[1]) > 0
        /\ \A k \in 1..Len(rooms'), k2 \in 1..Len(rooms') :
              k < k2 => FirstRectIndex(rooms, rooms'[k].rects[1])
                            < FirstRectIndex(rooms, rooms'[k2].rects[1])
      ]_vars

\* A call that merged three rooms into one and left another room alone
C16_Witness ==
    /\ pc = "draw"
    /\ Len(rooms) = 2
    /\ \E k \in 1..2 : Len(rooms[k].rects) = 3
    /\ \E k \in 1..2 : Len(rooms[k].rects) = 1

----------------------------------------------------------------------------
(* Claims about Map.__init__ *)

\* C5 as stated: for every valid configuration and every sequence of draws
\* Map construction runs to completion without raising an error, including
\* when partition or merge leaves exactly one room.
C5_NoError == err = "none"

\* The two ways to a single room (reachable, each followed by the error):
\* the root's split is dropped, or the merge fuses all rooms
C5_OneRoomByPartition == pc = "graph" /\ Len(rooms) = 1 /\ Len(leaves) = 1
C5_OneRoomByMerge == pc = "graph" /\ Len(rooms) = 1 /\ Len(leaves) = 4

IsPrefix(q, full) ==
    /\ Len(q) <= Len(full)
    /\ \A n \in 1..Len(q) : q[n] = full[n]

HasRoomIds == \E n \in 1..Len(tiles) : tiles[n] >= offs
AllZero == \A n \in 1..Len(tiles) : tiles[n] = 0

StatedOrder ==
    <<"partition", "extract", "shape", "fill-ids", "merge", "build-graph", "carve">>
CodeOrder ==
    <<"partition", "extract", "shape", "merge", "fill-ids", "build-graph", "carve">>

\* C6 as stated: the stages run once each in the order partition, extract,
\* shape, fill-ids, merge, build-graph, carve; the room ids are in the grid
\* before merge runs.
C6_Original ==
    /\ IsPrefix(stages, StatedOrder)
    /\ pc = "done" => stages = StatedOrder
    /\ pc = "merge" => HasRoomIds

\* C6 as amended: the stages run in the order partition, extract, shape,
\* merge, fill-ids, build-graph, carve, none more than once and none
\* re-entered, and a construction that returns has run each exactly once;
\* the grid is still all zero when merge runs and when it has run, and the
\* room ids are written after it.
C6_StageOrder ==
    /\ IsPrefix(stages, CodeOrder)
    /\ pc = "done" => stages = CodeOrder
    /\ pc \in {"merge", "draw"} => AllZero
    /\ pc = "draw" => stages = SubSeq(CodeOrder, 1, 4)
    /\ pc \in {"graph", "kruskal", "join", "done"} =>
          (HasRoomIds /\ IsPrefix(SubSeq(CodeOrder, 1, 5), stages))

C6_Witness ==
    /\ pc = "done"
    /\ stages = CodeOrder
    /\ Len(rooms) < Len(leaves)

\* C7: after Map construction every cell holds 0, 1 or 10 + i with
\* 0 <= i < len(rooms), and a cell holding 10 + i lies inside a rectangle of
\* rooms[i] (room k of the model is rooms[k - 1] of the list).
C7_TileIds ==
    pc = "done" =>
        \A n \in 1..Len(tiles) :
            \/ tiles[n] = 0
            \/ tiles[n] = 1
            \/ \E k \in 1..Len(rooms) :
                  /\ tiles[n] - 10 = k - 1
                  /\ RoomCovers(rooms, k, (n - 1) % width, (n - 1) \div width)

\* A finished map with a merged room, a tunnel and the last room's floor
C7_Witness ==
    /\ pc = "done"
    /\ Len(rooms) >= 2
    /\ \E k \in 1..Len(rooms) : Len(rooms[k].rects) >= 2
    /\ \E n \in 1..Len(tiles) : tiles[n] = 1
    /\ \E n \in 1..Len(tiles) : tiles[n] = 10 + Len(rooms) - 1

----------------------------------------------------------------------------
(* Claims about build_graph *)

\* The rooms reachable from the rooms of S through the connection relation
RECURSIVE ConnClosure(_)
ConnClosure(S) ==
    LET S2 == S \cup UNION {rooms[a].connections : a \in S}
    IN  IF S2 = S THEN S ELSE ConnClosure(S2)

\* The rooms reachable from the rooms of S through candidate edges
RECURSIVE CandClosure(_)
CandClosure(S) ==
    LET S2 == S \cup {e.b : e \in {c \in candidate_edges : c.a \in S}}
                 \cup {e.a : e \in {c \in candidate_edges : c.b \in S}}
    IN  IF S2 = S THEN S ELSE CandClosure(S2)

CandidateConnected == CandClosure({1}) = 1..Len(rooms)

\* The accepted edges, read off the rooms' connection sets
ConnectionPairs ==
    {<<a, b>> \in (1..Len(rooms)) \X (1..Len(rooms)) :
        a < b /\ b \in rooms[a].connections}

\* C1: after build_graph on n >= 2 rooms whose candidate graph is connected,
\* every room is reachable from every other room through the connections,
\* and exactly n-1 candidate edges were accepted.
C1_SpanningTree ==
    (pc = "join" /\ Len(rooms) >= 2 /\ CandidateConnected) =>
        /\ \A k \in 1..Len(rooms) : ConnClosure({k}) = 1..Len(rooms)
        /\ accepted = Len(rooms) - 1
        /\ Cardinality(ConnectionPairs) = Len(rooms) - 1
        /\ ConnectionPairs \subseteq {<<e.a, e.b>> : e \in candidate_edges}

\* A connected candidate graph that is not complete (the K nearest of a room
\* leave some room out)
C1_Witness ==
    /\ pc = "join"
    /\ Len(rooms) >= 2
    /\ CandidateConnected
    /\ 2 * Cardinality(candidate_edges) < Len(rooms) * (Len(rooms) - 1)
    /\ \A k \in 1..Len(rooms) : ConnClosure({k}) = 1..Len(rooms)

\* The precondition of C1 is needed: with a disconnected candidate graph
\* build_graph leaves rooms unreachable. (Reachable: not an invariant.)
C1_DisconnectedCase ==
    /\ pc = "join"
    /\ ~CandidateConnected
    /\ ConnClosure({1}) # 1..Len(rooms)

\* C2: in every state during and after build_graph the connection relation
\* is symmetric.
C2_Symmetric ==
    \A a, b \in 1..Len(rooms) :
        (b \in rooms[a].connections) <=> (a \in rooms[b].connections)

\* In the middle of the edge loop, with connections already recorded
C2_Witness ==
    /\ pc = "kruskal"
    /\ edges_left # {}
    /\ accepted = 2
    /\ \E a \in 1..Len(rooms) : Cardinality(rooms[a].connections) = 2

----------------------------------------------------------------------------
(* Claims about generate_tree and Node.split *)

\* C3: when the root is at least min_size wide and high, every leaf of the
\* tree is at least min_size wide and high, whatever fractions are drawn.
C3_LeavesMinSize ==
    (root.w >= min_size /\ root.h >= min_size) =>
        \A k \in 1..Len(leaves) : leaves[k].w >= min_size /\ leaves[k].h >= min_size

C3_Witness ==
    /\ pc = "partitioned"
    /\ root.w >= min_size /\ root.h >= min_size
    /\ min_size = 2
    /\ Len(leaves) = 4

\* C4: the two children of every split tile the split rectangle (their
\* union is the rectangle and they share no cell), and the leaves of the
\* finished tree partition the root: every cell of the root lies in exactly
\* one leaf, and no leaf reaches outside the root.
C4_LeavesPartitionRoot ==
    /\ node # NoNode =>
          /\ Cells(node.children[1]) \cup Cells(node.children[2]) = Cells(node.rect)
          /\ Cells(node.children[1]) \cap Cells(node.children[2]) = {}
    /\ pc = "partitioned" =>
          /\ \A c \in Cells(root) :
                Cardinality({k \in 1..Len(leaves) : c \in Cells(leaves[k])}) = 1
          /\ \A k \in 1..Len(leaves) : Cells(leaves[k]) \subseteq Cells(root)

C4_Witness ==
    /\ pc = "partitioned"
    /\ Len(leaves) >= 3
    /\ \E k \in 1..Len(leaves) : leaves[k].w # leaves[1].w

\* C11 as stated: a root whose width or height (either one) is smaller than
\* 2 * min_size gives a single-leaf tree and no split fraction is drawn.
C11_Original ==
    (pc = "partitioned" /\ (root.w < 2 * min_size \/ root.h < 2 * min_size))
        => (leaves = <<root>> /\ draws = 0)

\* C11 as amended: a root whose width and height are both smaller than
\* 2 * min_size gives a single-leaf tree; exactly one split fraction is drawn,
\* for the split of the root that generate_tree then drops.
C11_SmallRoot ==
    (pc = "partitioned" /\ root.w < 2 * min_size /\ root.h < 2 * min_size)
        => (leaves = <<root>> /\ draws = 1)

\* A small root that is still large enough for one child to fit
C11_Witness ==
    /\ pc = "partitioned"
    /\ root.w < 2 * min_size /\ root.h < 2 * min_size
    /\ root.w > min_size /\ root.h >= min_size
    /\ leaves = <<root>> /\ draws = 1

\* One side smaller than 2 * min_size, and the root is split all the same
C11_SplitAlongLongSide ==
    /\ pc = "partitioned"
    /\ root.h < 2 * min_size
    /\ Len(leaves) = 2

----------------------------------------------------------------------------
(* Claims about shrink_rooms *)

\* C8: a room rectangle that is at least 1 wide and 1 high is still at
\* least 1 wide and 1 high after shrink_rooms, whichever sides shrink and
\* whatever fractions in [0.10, 0.40] are drawn.
C8_ShrinkKeepsPositive ==
    \A k \in 1..Len(rooms) :
        \A n \in 1..Len(rooms[k].rects) :
            rooms[k].rects[n].w >= 1 /\ rooms[k].rects[n].h >= 1

\* Both opposite sides of a 5x5 rectangle shrank by the largest fraction
C8_Witness ==
    /\ pc = "shrunk"
    /\ rooms[1].rects[1] = Rect(2, 2, 2, 2)

----------------------------------------------------------------------------
(* Claims about project() *)

ScenarioA == Edge(Int2(1, 1), 10, TOP)
ScenarioB == Edge(Int2(8, 3), 5, BOTTOM)

\* C9 as stated: project(A, B) for A = TOP (1,1) length 10 and B = BOTTOM
\* (8,3) length 5 is a TOP edge with origin (8,1) and length 2.
C9_Original ==
    (pc = "projected" /\ e0 = ScenarioA /\ e1 = ScenarioB)
        => proj = Some(Edge(Int2(8, 1), 2, TOP))

\* C9 as amended: B runs from x = 8 back to x = 3, so project(A, B) is the
\* TOP edge with origin (3,1) and length 5.
C9_ProjectScenario ==
    (pc = "projected" /\ e0 = ScenarioA /\ e1 = ScenarioB)
        => proj = Some(Edge(Int2(3, 1), 5, TOP))

C9_Witness == pc = "projected" /\ e0 = ScenarioA /\ e1 = ScenarioB /\ proj # None

\* The run of an edge along its own axis, as the interval [AxisLo, AxisHi]
AxisLo(e) == IF is_horiz(e) THEN Min(e.pos.x, endp(e).x) ELSE Min(e.pos.y, endp(e).y)
AxisHi(e) == IF is_horiz(e) THEN Max(e.pos.x, endp(e).x) ELSE Max(e.pos.y, endp(e).y)
OverlapLen(a, b) == Min(AxisHi(a), AxisHi(b)) - Max(AxisLo(a), AxisLo(b))

\* C10: project(a, b) is None when a and b have the same direction, when one
\* is horizontal and the other vertical, or when their overlap along the
\* shared axis has zero or negative length; a returned edge has a's
\* direction and strictly positive length.
C10_ProjectNone ==
    pc = "projected" =>
        /\ (e0.dir = e1.dir) => proj = None
        /\ (is_horiz(e0) # is_horiz(e1)) => proj = None
        /\ (is_horiz(e0) = is_horiz(e1) /\ OverlapLen(e0, e1) <= 0) => proj = None
        /\ proj # None => (proj[1].dir = e0.dir /\ proj[1].l > 0)

\* Both outcomes occur: an edge is returned for some pair, and a pair of
\* opposing edges that only meet in a point yields None.
C10_Witness ==
    /\ pc = "projected"
    /\ e0.dir = LEFT /\ e1.dir = RIGHT
    /\ OverlapLen(e0, e1) = 0
    /\ proj = None

C10_WitnessEdge == pc = "projected" /\ e0.dir = BOTTOM /\ proj # None

=============================================================================
